---- MODULE Spec2Model ----
(***************************************************************************)
(* Credit metering and generation orchestration of Neural Speak.          *)
(*                                                                         *)
(* The server actions of actions/tts (generateSpeech, getUserAudioProjects, *)
(* getUserCredits, deleteAudioProject) and of actions/voice-upload         *)
(* (uploadVoice, getUserUploadedVoices) and the order-paid webhook of      *)
(* lib/auth run as independent request handlers over the shared datastore  *)
(* (user.credits, audioProject rows, uploadedVoice rows) and the bucket.   *)
(* Every datastore access, bucket put and provider call of a handler is    *)
(* one step: other handlers interleave between two steps of the same       *)
(* request. The awaits that touch no shared state (getSession,             *)
(* response.json, getSignedUrl) belong to the step they precede or follow. *)
(* Every awaited call can also throw, which ends the handler in its catch  *)
(* block.                                                                  *)
(*                                                                         *)
(* Conventions: a text is modelled by its length in characters; the two    *)
(* control parameters are modelled in tenths (5 stands for 0.5); a value   *)
(* that is undefined in the request is Undefined for numbers and NoValue   *)
(* for strings; an object key, a MIME type and a file name are the         *)
(* sequences of their parts.                                               *)
(*                                                                         *)
(* Specifications: Spec (concurrent generations and deletions with the     *)
(* webhook), SpecWebhook (the webhook with every event), SpecActions       *)
(* (every server action and the webhook, one invocation at a time),        *)
(* SpecCredits (concurrent generations and balance reads), SpecCost        *)
(* (generations started from the create page, for every text length),      *)
(* SpecUpload (concurrent uploads) and SpecFair (the actions of            *)
(* SpecActions under a runtime that runs every started handler on).        *)
(***************************************************************************)
EXTENDS Integers, FiniteSets, Sequences, TLC

\* ------------------------------------------------------------------ bounds

\* Number of handler invocations (server actions and webhook deliveries)
\* started in one behaviour.
MaxRequests == 2
\* Largest balance an account starts with.
MaxInitCredits == 3

\* ------------------------------------------------------------- value sets

\* Request slots: two requests can be in flight at the same time.
Procs == {"r1", "r2"}

\* Accounts that have a row in the user table.
Users == {"A", "B"}
\* An account id that a session can carry although no user row exists.
NoRowUser == "X"
\* getSession() returned no session.
NoSession == "none"
Sessions == Users \cup {NoRowUser, NoSession}
\* getSession() threw: the handler never held a session.
SessionFailed == "failed"

NoValue == ""
Undefined == -1

\* An object key is the sequence of the parts it is built from; no key is
\* the empty sequence.
NoKey == << >>
\* The voice the create page selects first (VOICE_FILES[0]).
DefaultVoice == <<"samples/voices/Michael.wav">>

S3_BUCKET_URL == "https://neural-speak-sufjan.s3.us-east-2.amazonaws.com"

\* The artifact key of a well-formed provider answer.
ProviderKey == "tts/out.wav"
\* What the provider call can produce: the call throws (network error or
\* timeout), a non-2xx status, a 2xx status whose body does not parse, a 2xx
\* status whose body has no s3_Key, a 2xx status with a key.
ProviderOutcomes == {"throws", "not_ok", "ok_unparseable", "ok_no_key", "ok_key"}

\* ------------------------------------------------------------------ state

VARIABLES
    credits,      \* user.credits, by account id
    projects,     \* audioProject table: id -> row
    nextId,       \* the id the next created audioProject row gets
    req,          \* the request running in each slot
    started,      \* handler invocations started so far
    initCredits,  \* history: the balances of the initial state
    credited,     \* history: credits added by the webhook, by account
    successCost,  \* history: cost of the generations that returned success
    refused,      \* history: the refusals deleteAudioProject has returned
    hook,         \* the webhook delivery that is being answered, or NoHook
    applied,      \* history: how often each event has been credited
    page,         \* the create page: its text and the cost its panel shows
    voices,       \* uploadedVoice table, in the order of creation
    blobs,        \* keys of the objects put into the bucket
    reads,        \* read-only server actions started so far
    outcomes      \* history: how the deletes of each id called by its owner ended

vars == <<credits, projects, nextId, req, started,
          initCredits, credited, successCost, refused, hook, applied,
          page, voices, blobs, reads, outcomes>>

NoData == [text |-> 0, voice_S3_key |-> NoKey, language |-> NoValue,
           exaggeration |-> Undefined, cfg_weight |-> Undefined]
NoResult == [success |-> FALSE, error |-> NoValue]
\* No row was read (the local variables user and project before their reads).
NoUser == [found |-> FALSE, credits |-> 0]
NoProject == [found |-> FALSE, userId |-> NoValue]

\* No webhook delivery is being answered.
NoEvent == [id |-> NoValue, signed |-> FALSE, externalId |-> NoValue,
            productId |-> NoValue]
NoHook == [event |-> NoEvent, called |-> FALSE, error |-> NoValue, added |-> 0]

\* No file was submitted (formData.get("voice") is null).
NoFile == [present |-> FALSE, type |-> << >>, size |-> 0, name |-> << >>]

\* A slot with no request in it. exception names what threw inside the
\* handler, NoValue when nothing did; owned tells whether a delete was called
\* by the owner of an existing row or has found the row to be its caller's.
\* The counters count what the request has done: provider calls, debits and
\* the amount debited, project rows created and deleted, and the datastore
\* reads, datastore writes and bucket puts it has issued.
Idle == [op |-> "none", pc |-> "idle", session |-> NoSession, data |-> NoData,
         id |-> 0, creditsNeeded |-> 0, user |-> NoUser, project |-> NoProject,
         response |-> NoValue, s3_Key |-> NoValue, payload |-> NoData,
         file |-> NoFile, fileName |-> NoKey,
         exception |-> NoValue, result |-> NoResult, owned |-> FALSE,
         calls |-> 0, debits |-> 0, debited |-> 0, creates |-> 0,
         created |-> 0, deletes |-> 0,
         dbReads |-> 0, dbWrites |-> 0, puts |-> 0]

\* ---------------------------------------------------------------- helpers

Max(a, b) == IF a >= b THEN a ELSE b
\* Math.ceil(n / d) for n >= 0, d > 0.
Ceil(n, d) == (n + d - 1) \div d

\* A request that has finished returns to its caller before any other handler
\* takes a step (returning touches no shared state, so no interleaving of the
\* datastore accesses is lost).
NoneDone ==
    /\ \A q \in Procs : req[q].pc # "done"
    /\ hook = NoHook

\* The slots are interchangeable: r2 is used only while r1 is busy.
SlotFree(p) ==
    /\ req[p].pc = "idle"
    /\ p = "r2" => req["r1"].pc # "idle"

Failure(msg) == [success |-> FALSE, error |-> msg]

\* Mutant: the session is not looked at.
NoUserIdUnchecked(sess) == FALSE

\* if (!session?.user?.id)
NoUserId(sess) == sess = NoSession

\* The request r after it has issued one more datastore read, datastore
\* write or bucket put.
Issued(r, access) ==
    CASE access = "read" -> [r EXCEPT !.dbReads = @ + 1]
      [] access = "write" -> [r EXCEPT !.dbWrites = @ + 1]
      [] access = "put" -> [r EXCEPT !.puts = @ + 1]

\* The request r ended with this result.
Ended(r, result) == [r EXCEPT !.pc = "done", !.result = result]

\* Mutant: the exception leaves the server action.
CatchResultRethrown(op) == [thrown |-> TRUE]

\* The result the catch block of each server action returns.
CatchResult(op) ==
    CASE op = "generateSpeech" -> Failure("Internal server error")
      [] op = "getUserAudioProjects" -> Failure("Failed to fetch audio projects")
      [] op = "getUserCredits" ->
            [success |-> FALSE, error |-> "Failed to fetch credits", credits |-> 0]
      [] op = "deleteAudioProject" -> Failure("Failed to delete audio project")
      [] op = "uploadVoice" -> Failure("Failed to upload voice file")
      [] op = "getUserUploadedVoices" ->
            [success |-> FALSE, error |-> "Failed to fetch uploaded voices",
             voices |-> << >>]

\* An awaited call of the request r threw: the session provider ("session"),
\* the datastore ("datastore", or "RecordNotFound" for a delete of no row),
\* the inference provider ("provider") or the bucket ("bucket"). The catch
\* block of the server action returns its result.
Caught(r, exception) ==
    Ended([r EXCEPT !.exception = exception], CatchResult(r.op))

\* ----------------------------------------------------------- generateSpeech

\* Mutant: only the text is required.
MissingRequiredFieldsTextOnly(data) == data.text = 0

\* if (!data.text || !data.voice_S3_key || !data.language)
MissingRequiredFields(data) ==
    \/ data.text = 0
    \/ data.voice_S3_key = NoKey
    \/ data.language = NoValue

\* Mutant: the quotient is rounded down.
creditsNeededFloor(text) == Max(1, text \div 100)

\* Math.max(1, Math.ceil(data.text.length / 100))
creditsNeeded(text) == Max(1, Ceil(text, 100))

\* Mutant: the comparison is off by one, so a balance one short passes.
InsufficientCreditsOffByOne(balance, needed) == balance < needed - 1

\* if (user.credits < creditsNeeded)
InsufficientCredits(balance, needed) == balance < needed

\* `Insufficient credits. Need ${creditsNeeded}, have ${user.credits}`
InsufficientResult(needed, balance) ==
    [success |-> FALSE, error |-> "Insufficient credits",
     need |-> needed, have |-> balance]

\* Mutant: an omitted parameter is sent as 0 instead of 0.5.
OrDefaultZero(v) == IF v = Undefined THEN 0 ELSE v

\* data.exaggeration ?? 0.5, data.cfg_weight ?? 0.5
OrDefault(v) == IF v = Undefined THEN 5 ELSE v

\* The JSON body sent to the inference provider.
ProviderPayload(data) ==
    [text |-> data.text, voice_S3_key |-> data.voice_S3_key,
     language |-> data.language,
     exaggeration |-> OrDefault(data.exaggeration),
     cfg_weight |-> OrDefault(data.cfg_weight)]

\* Mutant: the status of the response is not looked at.
ResponseOkUnchecked(outcome) == TRUE

\* if (!response.ok)
ResponseOk(outcome) == outcome \in {"ok_unparseable", "ok_no_key", "ok_key"}

\* (await response.json()).s3_Key of a body that parses.
ResponseKey(outcome) == IF outcome = "ok_key" THEN ProviderKey ELSE NoValue

\* `${S3_BUCKET_URL}/${result.s3_Key}`
AudioUrl(key) == <<S3_BUCKET_URL, "/", key>>

\* The value a column with a default takes when the create call leaves the
\* field undefined.
ColumnDefault(v) == IF v = Undefined THEN 5 ELSE v

\* Mutant: the row does not store the voice key.
NewAudioProjectNoVoice(data, key, uid) ==
    [text |-> data.text, audioUrl |-> AudioUrl(key), s3Key |-> key,
     language |-> data.language, voiceS3key |-> NoKey,
     exaggeration |-> ColumnDefault(data.exaggeration),
     cfgWeight |-> ColumnDefault(data.cfg_weight),
     userId |-> uid]

\* The row db.audioProject.create() writes.
NewAudioProject(data, key, uid) ==
    [text |-> data.text, audioUrl |-> AudioUrl(key), s3Key |-> key,
     language |-> data.language, voiceS3key |-> data.voice_S3_key,
     exaggeration |-> ColumnDefault(data.exaggeration),
     cfgWeight |-> ColumnDefault(data.cfg_weight),
     userId |-> uid]

SuccessResult(key, id) ==
    [success |-> TRUE, s3_key |-> key, audioUrl |-> AudioUrl(key),
     projectId |-> id]

\* The request is called; getSession() and the validation of the fields run
\* before the first datastore access.
GenBegin(p, sess, data) ==
    /\ NoneDone
    /\ SlotFree(p)
    /\ started < MaxRequests
    /\ started' = started + 1
    /\ LET r == [Idle EXCEPT !.op = "generateSpeech", !.session = sess,
                             !.data = data]
       IN \/ req' = [req EXCEPT ![p] =
                        Caught([r EXCEPT !.session = SessionFailed], "session")]
          \/ req' = [req EXCEPT ![p] =
                IF NoUserId(sess)
                THEN [r EXCEPT !.pc = "done", !.result = Failure("Unauthorized")]
                ELSE IF MissingRequiredFields(data)
                THEN [r EXCEPT !.pc = "done",
                               !.result = Failure("Missing required fields")]
                ELSE [r EXCEPT !.pc = "findUser",
                               !.creditsNeeded = creditsNeeded(data.text)]]
    /\ UNCHANGED <<credits, projects, nextId, initCredits,
                   credited, successCost, refused, hook, applied,
                   page, voices, blobs, reads, outcomes>>

\* db.user.findUnique({ select: credits }) and the balance check.
GenFindUser(p) ==
    /\ req[p].op = "generateSpeech"
    /\ req[p].pc = "findUser"
    /\ NoneDone
    /\ LET r == Issued(req[p], "read")
       IN \/ req' = [req EXCEPT ![p] = Caught(r, "datastore")]
          \/ /\ req[p].session \notin Users
             /\ req' = [req EXCEPT ![p] = Ended(r, Failure("User not found"))]
          \/ /\ req[p].session \in Users
             /\ LET user == [found |-> TRUE, credits |-> credits[req[p].session]]
                    needed == req[p].creditsNeeded
                IN req' = [req EXCEPT ![p] =
                      IF InsufficientCredits(user.credits, needed)
                      THEN [r EXCEPT !.user = user, !.pc = "done",
                               !.result = InsufficientResult(needed, user.credits)]
                      ELSE [r EXCEPT !.user = user, !.pc = "fetch"]]
    /\ UNCHANGED <<credits, projects, nextId, started, initCredits,
                   credited, successCost, refused, hook, applied,
                   page, voices, blobs, reads, outcomes>>

\* Mutant: the provider is called again after a call that failed.
GenFetchRetry(p, outcome) ==
    /\ req[p].op = "generateSpeech"
    /\ req[p].pc = "fetch"
    /\ NoneDone
    /\ req' = [req EXCEPT ![p].calls = @ + 1, ![p].response = outcome,
                          ![p].payload = ProviderPayload(req[p].data),
                          ![p].s3_Key = ResponseKey(outcome),
                          ![p].pc = IF outcome \in {"ok_no_key", "ok_key"}
                                    THEN "debit" ELSE "fetch"]
    /\ UNCHANGED <<credits, projects, nextId, started, initCredits,
                   credited, successCost, refused, hook, applied,
                   page, voices, blobs, reads, outcomes>>

\* fetch(env.MODAL_API_URL, ...), the status check and response.json().
GenFetch(p, outcome) ==
    /\ req[p].op = "generateSpeech"
    /\ req[p].pc = "fetch"
    /\ NoneDone
    /\ LET r == [req[p] EXCEPT !.calls = @ + 1, !.response = outcome,
                               !.payload = ProviderPayload(req[p].data)]
       IN req' = [req EXCEPT ![p] =
             IF outcome = "throws"
             THEN Caught(r, "provider")
             ELSE IF ~ResponseOk(outcome)
             THEN [r EXCEPT !.pc = "done",
                            !.result = Failure("Failed to generate speech")]
             ELSE IF outcome = "ok_unparseable"
             THEN Caught(r, "provider")
             ELSE [r EXCEPT !.pc = "debit", !.s3_Key = ResponseKey(outcome)]]
    /\ UNCHANGED <<credits, projects, nextId, started, initCredits,
                   credited, successCost, refused, hook, applied,
                   page, voices, blobs, reads, outcomes>>

\* Mutant: the row is created without the debit.
GenDebitSkipped(p) ==
    /\ req[p].op = "generateSpeech"
    /\ req[p].pc = "debit"
    /\ NoneDone
    /\ req' = [req EXCEPT ![p].pc = "create"]
    /\ UNCHANGED <<credits, projects, nextId, started, initCredits,
                   credited, successCost, refused, hook, applied,
                   page, voices, blobs, reads, outcomes>>

\* Mutant: the request goes on to the create after a debit that threw.
GenDebitFailureIgnored(p) ==
    /\ req[p].op = "generateSpeech"
    /\ req[p].pc = "debit"
    /\ NoneDone
    /\ LET r == Issued(req[p], "write")
       IN \/ /\ req' = [req EXCEPT ![p] = [r EXCEPT !.pc = "create"]]
             /\ UNCHANGED credits
          \/ /\ credits' = [credits EXCEPT
                   ![req[p].session] = @ - req[p].creditsNeeded]
             /\ req' = [req EXCEPT ![p] =
                   [r EXCEPT !.pc = "create", !.debits = @ + 1,
                             !.debited = @ + req[p].creditsNeeded]]
    /\ UNCHANGED <<projects, nextId, started, initCredits,
                   credited, successCost, refused, hook, applied,
                   page, voices, blobs, reads, outcomes>>

\* db.user.update({ credits: { decrement: creditsNeeded } }): one UPDATE
\* statement, credits = credits - n.
GenDebit(p) ==
    /\ req[p].op = "generateSpeech"
    /\ req[p].pc = "debit"
    /\ NoneDone
    /\ LET r == Issued(req[p], "write")
       IN \/ /\ req' = [req EXCEPT ![p] =
                           Caught(r, "datastore")]
             /\ UNCHANGED credits
          \/ /\ credits' = [credits EXCEPT
                   ![req[p].session] = @ - req[p].creditsNeeded]
             /\ req' = [req EXCEPT ![p] =
                   [r EXCEPT !.pc = "create", !.debits = @ + 1,
                             !.debited = @ + req[p].creditsNeeded]]
    /\ UNCHANGED <<projects, nextId, started, initCredits,
                   credited, successCost, refused, hook, applied,
                   page, voices, blobs, reads, outcomes>>

\* db.audioProject.create(...) and the return of the success result.
GenCreate(p) ==
    /\ req[p].op = "generateSpeech"
    /\ req[p].pc = "create"
    /\ NoneDone
    /\ LET r == Issued(req[p], "write")
       IN \/ /\ req' = [req EXCEPT ![p] =
                           Caught(r, "datastore")]
             /\ UNCHANGED <<projects, nextId, successCost>>
          \/ /\ projects' = (nextId :> NewAudioProject(req[p].data,
                                  req[p].s3_Key, req[p].session)) @@ projects
             /\ nextId' = nextId + 1
             /\ req' = [req EXCEPT ![p] =
                   [r EXCEPT !.pc = "done", !.creates = @ + 1,
                             !.created = nextId,
                             !.result = SuccessResult(req[p].s3_Key, nextId)]]
             /\ successCost' = [successCost EXCEPT
                   ![req[p].session] = @ + req[p].creditsNeeded]
    /\ UNCHANGED <<credits, started, initCredits, credited, refused,
                   hook, applied,
                   page, voices, blobs, reads, outcomes>>

\* The caller received the result; the slot is free for the next request.
Return(p) ==
    /\ req[p].pc = "done"
    /\ req' = [req EXCEPT ![p] = Idle]
    /\ UNCHANGED <<credits, projects, nextId, started, initCredits,
                   credited, successCost, refused, hook, applied,
                   page, voices, blobs, reads, outcomes>>

\* ------------------------------------------------------- deleteAudioProject

\* db.audioProject.findUnique({ where: { id } }): the row, or null.
FindProject(id) ==
    IF id \in DOMAIN projects
    THEN [found |-> TRUE, userId |-> projects[id].userId]
    ELSE NoProject

\* Mutant: only the existence of the row is checked, not its owner.
NotOwnedExistenceOnly(project, uid) == ~project.found

\* Mutant: the delete goes on whatever the lookup returned.
NotOwnedUnchecked(project, uid) == FALSE

\* if (project?.userId !== session.user.id)
NotOwned(project, uid) == ~project.found \/ project.userId # uid

\* Mutant: a missing row and a row of another account get different errors.
RefusedResultDistinct(project, uid) ==
    IF project.found THEN Failure("Unauthorized") ELSE Failure("Not found")

\* The result of a delete that is refused after the lookup.
RefusedResult(project, uid) == Failure("Not found or unauthorized")

\* The table without the row of this id.
WithoutRow(id) == [i \in DOMAIN projects \ {id} |-> projects[i]]

\* No delete of the id has been called by its owner.
NoOutcome == [ok |-> 0, failed |-> 0, faulted |-> 0]

\* The history after the delete r: when r has ended and was called by the
\* owner of the row, its result is counted as a success, as a failure
\* although no collaborator failed (the row was not found), or as a failure
\* caused by the session provider or the datastore.
Logged(r) ==
    IF r.pc = "done" /\ r.owned
    THEN [outcomes EXCEPT ![r.id] =
            IF r.result.success THEN [@ EXCEPT !.ok = @ + 1]
            ELSE IF r.exception \in {"session", "datastore"}
                 THEN [@ EXCEPT !.faulted = @ + 1]
                 ELSE [@ EXCEPT !.failed = @ + 1]]
    ELSE outcomes

\* The request is called and getSession() has answered.
DelBegin(p, sess, id) ==
    /\ NoneDone
    /\ SlotFree(p)
    /\ started < MaxRequests
    /\ started' = started + 1
    /\ LET r == [Idle EXCEPT !.op = "deleteAudioProject", !.session = sess,
                             !.id = id,
                             !.owned = ~NotOwned(FindProject(id), sess)]
       IN \/ req' = [req EXCEPT ![p] =
                        Caught([r EXCEPT !.session = SessionFailed], "session")]
          \/ req' = [req EXCEPT ![p] =
                IF NoUserId(sess)
                THEN [r EXCEPT !.pc = "done", !.result = Failure("Unauthorized")]
                ELSE [r EXCEPT !.pc = "findProject"]]
    /\ outcomes' = Logged(req'[p])
    /\ UNCHANGED <<credits, projects, nextId, initCredits,
                   credited, successCost, refused, hook, applied,
                   page, voices, blobs, reads>>

\* db.audioProject.findUnique() and the ownership check.
DelFind(p) ==
    /\ req[p].op = "deleteAudioProject"
    /\ req[p].pc = "findProject"
    /\ NoneDone
    /\ LET r == Issued(req[p], "read")
           project == FindProject(req[p].id)
           uid == req[p].session
       IN \/ /\ req' = [req EXCEPT ![p] =
                           Caught(r, "datastore")]
             /\ UNCHANGED refused
          \/ IF NotOwned(project, uid)
             THEN /\ req' = [req EXCEPT ![p] =
                        [r EXCEPT !.project = project, !.pc = "done",
                                  !.result = RefusedResult(project, uid)]]
                  /\ refused' = refused \cup
                        {[found |-> project.found,
                          result |-> RefusedResult(project, uid)]}
             ELSE /\ req' = [req EXCEPT ![p] =
                        [r EXCEPT !.project = project, !.pc = "delete",
                                  !.owned = TRUE]]
                  /\ UNCHANGED refused
    /\ outcomes' = Logged(req'[p])
    /\ UNCHANGED <<credits, projects, nextId, started, initCredits,
                   credited, successCost, hook, applied,
                   page, voices, blobs, reads>>

\* Mutant: deleting a row that is no longer there succeeds (deleteMany).
DelDeleteMany(p) ==
    /\ req[p].op = "deleteAudioProject"
    /\ req[p].pc = "delete"
    /\ NoneDone
    /\ LET r == Issued(req[p], "write")
       IN \/ /\ req' = [req EXCEPT ![p] = Caught(r, "datastore")]
             /\ UNCHANGED projects
          \/ /\ projects' = WithoutRow(req[p].id)
             /\ req' = [req EXCEPT ![p] =
                   [r EXCEPT !.pc = "done", !.deletes = @ + 1,
                             !.result = [success |-> TRUE]]]
    /\ outcomes' = Logged(req'[p])
    /\ UNCHANGED <<credits, nextId, started, initCredits,
                   credited, successCost, refused, hook, applied,
                   page, voices, blobs, reads>>

\* db.audioProject.delete({ where: { id } }): throws when no row has the id.
DelDelete(p) ==
    /\ req[p].op = "deleteAudioProject"
    /\ req[p].pc = "delete"
    /\ NoneDone
    /\ LET r == Issued(req[p], "write")
       IN \/ /\ req' = [req EXCEPT ![p] = Caught(r, "datastore")]
             /\ UNCHANGED projects
          \/ /\ req[p].id \notin DOMAIN projects
             /\ req' = [req EXCEPT ![p] = Caught(r, "RecordNotFound")]
             /\ UNCHANGED projects
          \/ /\ req[p].id \in DOMAIN projects
             /\ projects' = WithoutRow(req[p].id)
             /\ req' = [req EXCEPT ![p] =
                   [r EXCEPT !.pc = "done", !.deletes = @ + 1,
                             !.result = [success |-> TRUE]]]
    /\ outcomes' = Logged(req'[p])
    /\ UNCHANGED <<credits, nextId, started, initCredits,
                   credited, successCost, refused, hook, applied,
                   page, voices, blobs, reads>>

\* Ids a delete is called with: 0 is the id of no row.
DeleteIds == 0..2

\* ------------------------------------------------------ read-only actions

\* Number of read-only server actions started in one behaviour.
MaxReads == 1

\* The result of a getUserCredits that did not read a balance.
NoCredits(msg) == [success |-> FALSE, error |-> msg, credits |-> 0]

\* getUserCredits(): getSession(), db.user.findUnique({ select: credits }) and
\* the return of the balance that was read.
getUserCredits(p, sess) ==
    /\ NoneDone
    /\ SlotFree(p)
    /\ reads < MaxReads
    /\ reads' = reads + 1
    /\ LET r == [Idle EXCEPT !.op = "getUserCredits", !.session = sess]
           q == Issued(r, "read")
       IN \/ req' = [req EXCEPT ![p] =
                        Caught([r EXCEPT !.session = SessionFailed], "session")]
          \/ /\ NoUserId(sess)
             /\ req' = [req EXCEPT ![p] = Ended(r, NoCredits("Unauthorized"))]
          \/ /\ ~NoUserId(sess)
             /\ \/ req' = [req EXCEPT ![p] =
                              Caught(q, "datastore")]
                \/ req' = [req EXCEPT ![p] =
                      IF sess \notin Users
                      THEN Ended(q, NoCredits("User not found"))
                      ELSE Ended([q EXCEPT !.user = [found |-> TRUE,
                                                     credits |-> credits[sess]]],
                                 [success |-> TRUE, credits |-> credits[sess]])]
    /\ UNCHANGED <<credits, projects, nextId, started, initCredits,
                   credited, successCost, refused, hook, applied,
                   page, voices, blobs, outcomes>>

\* Mutant: findMany() without the where clause.
RECURSIVE ProjectsFromAnyAccount(_, _)
ProjectsFromAnyAccount(id, uid) ==
    IF id = 0
    THEN << >>
    ELSE (IF id \in DOMAIN projects
          THEN <<[id |-> id, row |-> projects[id]]>>
          ELSE << >>) \o ProjectsFromAnyAccount(id - 1, uid)

\* The rows of the account with an id of at most id, the latest id first:
\* findMany({ where: { userId }, orderBy: { createdAt: "desc" } }).
RECURSIVE ProjectsFrom(_, _)
ProjectsFrom(id, uid) ==
    IF id = 0
    THEN << >>
    ELSE (IF id \in DOMAIN projects /\ projects[id].userId = uid
          THEN <<[id |-> id, row |-> projects[id]]>>
          ELSE << >>) \o ProjectsFrom(id - 1, uid)

\* getUserAudioProjects(): getSession() and db.audioProject.findMany().
getUserAudioProjects(p, sess) ==
    /\ NoneDone
    /\ SlotFree(p)
    /\ reads < MaxReads
    /\ reads' = reads + 1
    /\ LET r == [Idle EXCEPT !.op = "getUserAudioProjects", !.session = sess]
           q == Issued(r, "read")
       IN \/ req' = [req EXCEPT ![p] =
                        Caught([r EXCEPT !.session = SessionFailed], "session")]
          \/ /\ NoUserId(sess)
             /\ req' = [req EXCEPT ![p] = Ended(r, Failure("Unauthorized"))]
          \/ /\ ~NoUserId(sess)
             /\ \/ req' = [req EXCEPT ![p] =
                              Caught(q, "datastore")]
                \/ req' = [req EXCEPT ![p] =
                      Ended(q, [success |-> TRUE,
                                audioProjects |-> ProjectsFrom(nextId - 1, sess)])]
    /\ UNCHANGED <<credits, projects, nextId, started, initCredits,
                   credited, successCost, refused, hook, applied,
                   page, voices, blobs, outcomes>>

\* The voice rows of the account among the first n, the latest first:
\* findMany({ where: { userId }, orderBy: { createdAt: "desc" } }).
RECURSIVE VoicesFrom(_, _)
VoicesFrom(n, uid) ==
    IF n = 0
    THEN << >>
    ELSE (IF voices[n].userId = uid
          THEN <<[id |-> n, row |-> voices[n]]>>
          ELSE << >>) \o VoicesFrom(n - 1, uid)

\* The result of a getUserUploadedVoices that read no rows.
NoVoices(msg) == [success |-> FALSE, error |-> msg, voices |-> << >>]

\* getUserUploadedVoices(): getSession() and db.uploadedVoice.findMany().
getUserUploadedVoices(p, sess) ==
    /\ NoneDone
    /\ SlotFree(p)
    /\ reads < MaxReads
    /\ reads' = reads + 1
    /\ LET r == [Idle EXCEPT !.op = "getUserUploadedVoices", !.session = sess]
           q == Issued(r, "read")
       IN \/ req' = [req EXCEPT ![p] =
                        Caught([r EXCEPT !.session = SessionFailed], "session")]
          \/ /\ NoUserId(sess)
             /\ req' = [req EXCEPT ![p] = Ended(r, NoVoices("Unauthorized"))]
          \/ /\ ~NoUserId(sess)
             /\ \/ req' = [req EXCEPT ![p] =
                              Caught(q, "datastore")]
                \/ req' = [req EXCEPT ![p] =
                      Ended(q, [success |-> TRUE,
                                voices |-> VoicesFrom(Len(voices), sess)])]
    /\ UNCHANGED <<credits, projects, nextId, started, initCredits,
                   credited, successCost, refused, hook, applied,
                   page, voices, blobs, outcomes>>

\* -------------------------------------------------------------- uploadVoice

MAX_FILE_SIZE == 10 * 1024 * 1024
SIGNED_URL_EXPIRY == 3600 * 24 * 7

\* A MIME type is the sequence of its parts around "/", a file name the
\* sequence of its parts around ".".
\* file.type.startsWith("audio/")
StartsWithAudio(type) == Len(type) >= 2 /\ type[1] = "audio"

\* file.name.split(".").pop()
FileExtension(name) == name[Len(name)]

\* `voices/${session.user.id}/${Date.now()}.${fileExtension}`
VoiceKey(uid, now, fileExtension) == <<"voices", uid, now, fileExtension>>

\* getSignedUrl(s3Client, GetObjectCommand({ Key }), { expiresIn })
SignedUrl(key) == [key |-> key, expiresIn |-> SIGNED_URL_EXPIRY]

\* The files submitted: a small audio file, an audio file of exactly and of
\* one byte more than MAX_FILE_SIZE, a file that is not audio, and no file.
AudioFile ==
    [present |-> TRUE, type |-> <<"audio", "wav">>, size |-> 1,
     name |-> <<"voice", "wav">>]
UploadFiles ==
    {AudioFile,
     [AudioFile EXCEPT !.size = MAX_FILE_SIZE],
     [AudioFile EXCEPT !.size = MAX_FILE_SIZE + 1],
     [AudioFile EXCEPT !.type = <<"text", "plain">>],
     NoFile}

\* The request is called: getSession(), the check of the AWS settings, the
\* validation of the file and the choice of the object key.
UpBegin(p, sess, file, now, configured) ==
    /\ NoneDone
    /\ SlotFree(p)
    /\ started < MaxRequests
    /\ started' = started + 1
    /\ LET r == [Idle EXCEPT !.op = "uploadVoice", !.session = sess,
                             !.file = file]
       IN \/ req' = [req EXCEPT ![p] =
                        Caught([r EXCEPT !.session = SessionFailed], "session")]
          \/ req' = [req EXCEPT ![p] =
                IF NoUserId(sess)
                THEN Ended(r, Failure("Unauthorized"))
                ELSE IF ~configured
                THEN Ended(r, Failure("AWS S3 not configured"))
                ELSE IF ~file.present
                THEN Ended(r, Failure("No file provided"))
                ELSE IF ~StartsWithAudio(file.type)
                THEN Ended(r, Failure("File must be audio"))
                ELSE IF file.size > MAX_FILE_SIZE
                THEN Ended(r, Failure("File must be under 10MB"))
                ELSE [r EXCEPT !.pc = "put",
                               !.fileName = VoiceKey(sess, now,
                                                     FileExtension(file.name))]]
    /\ UNCHANGED <<credits, projects, nextId, initCredits,
                   credited, successCost, refused, hook, applied,
                   page, voices, blobs, reads, outcomes>>

\* Mutant: the handler goes on without the object having been stored.
UpPutNotStored(p) ==
    /\ req[p].op = "uploadVoice"
    /\ req[p].pc = "put"
    /\ NoneDone
    /\ req' = [req EXCEPT ![p] = [Issued(req[p], "put") EXCEPT !.pc = "createVoice"]]
    /\ UNCHANGED <<credits, projects, nextId, started, initCredits,
                   credited, successCost, refused, hook, applied,
                   page, voices, blobs, reads, outcomes>>

\* s3Client.send(new PutObjectCommand({ Key: fileName, ... })).
UpPut(p) ==
    /\ req[p].op = "uploadVoice"
    /\ req[p].pc = "put"
    /\ NoneDone
    /\ LET r == Issued(req[p], "put")
       IN \/ /\ req' = [req EXCEPT ![p] =
                           Caught(r, "bucket")]
             /\ UNCHANGED blobs
          \/ /\ blobs' = blobs \cup {req[p].fileName}
             /\ req' = [req EXCEPT ![p] = [r EXCEPT !.pc = "createVoice"]]
    /\ UNCHANGED <<credits, projects, nextId, started, initCredits,
                   credited, successCost, refused, hook, applied,
                   page, voices, reads, outcomes>>

\* getSignedUrl(), db.uploadedVoice.create(...) and the return of the success
\* result.
UpCreate(p) ==
    /\ req[p].op = "uploadVoice"
    /\ req[p].pc = "createVoice"
    /\ NoneDone
    /\ LET r == Issued(req[p], "write")
           signedUrl == SignedUrl(req[p].fileName)
       IN \/ /\ req' = [req EXCEPT ![p] =
                           Caught(r, "datastore")]
             /\ UNCHANGED voices
          \/ /\ voices' = Append(voices,
                   [name |-> req[p].file.name, s3Key |-> req[p].fileName,
                    url |-> signedUrl, userId |-> req[p].session])
             /\ req' = [req EXCEPT ![p] =
                   Ended(r, [success |-> TRUE, id |-> Len(voices) + 1,
                             s3Key |-> req[p].fileName, url |-> signedUrl])]
    /\ UNCHANGED <<credits, projects, nextId, started, initCredits,
                   credited, successCost, refused, hook, applied,
                   page, blobs, reads, outcomes>>

\* ------------------------------------------------------- order-paid webhook

SmallProduct == "1f4845d1-6550-4163-9e86-814913d357ed"
MediumProduct == "10806cf4-e388-49b5-8c34-d22e01e943a3"
LargeProduct == "da30ecbb-73f5-4245-ae4a-8a6db24ff312"

\* Mutant: the medium and the large package are swapped.
CREDIT_PACKAGES_Swapped(productId) ==
    CASE productId = SmallProduct -> 50
      [] productId = MediumProduct -> 400
      [] productId = LargeProduct -> 200
      [] OTHER -> 0

\* productId ? CREDIT_PACKAGES[productId] ?? 0 : 0
CREDIT_PACKAGES(productId) ==
    CASE productId = SmallProduct -> 50
      [] productId = MediumProduct -> 200
      [] productId = LargeProduct -> 400
      [] OTHER -> 0

\* The orders the payment provider reports; a delivery of the same order is
\* the same event.
OrderIds == {"order-1", "order-2"}

\* The events the payment provider posts: signed with the webhook secret or
\* not, with or without the external id of the customer and the product id.
WebhookEvents ==
    [id : OrderIds, signed : BOOLEAN, externalId : {NoValue, "A", NoRowUser},
     productId : {NoValue, SmallProduct, MediumProduct, LargeProduct, "other"}]

\* The deliveries of one order of the small package.
SmallOrderEvents ==
    {ev \in WebhookEvents : ev.id = "order-1" /\ ev.productId = SmallProduct}

\* Mutant: every event is taken as verified.
SignatureAssumed(ev) == TRUE

\* webhooks({ secret: env.POLAR_WEBHOOK_SECRET, ... }): the plugin verifies
\* the signature of the event with the secret.
SignatureVerified(ev) == ev.signed

\* Mutant: the external customer id is not looked at.
ExternalIdUnchecked(externalCustomerId) == FALSE

\* if (!externalCustomerId)
ExternalIdMissing(externalCustomerId) == externalCustomerId = NoValue

\* The answer to a delivery: whether onOrderPaid was called, the error the
\* delivery ended with (NoValue for none) and the credits it added.
HookAnswer(ev, called, error, added) ==
    [event |-> ev, called |-> called, error |-> error, added |-> added]

\* One delivery of an order-paid event. The plugin calls onOrderPaid for a
\* verified event only. onOrderPaid throws without an external customer id,
\* and db.user.update throws when no user row has that id or the datastore
\* fails; otherwise the balance is incremented in one UPDATE statement.
onOrderPaid(ev) ==
    /\ started < MaxRequests
    /\ NoneDone
    /\ started' = started + 1
    /\ IF ~SignatureVerified(ev)
       THEN /\ hook' = HookAnswer(ev, FALSE, "Invalid signature", 0)
            /\ UNCHANGED <<credits, credited, applied>>
       ELSE IF ExternalIdMissing(ev.externalId)
       THEN /\ hook' = HookAnswer(ev, TRUE, "No external customer id found.", 0)
            /\ UNCHANGED <<credits, credited, applied>>
       ELSE \/ /\ hook' = HookAnswer(ev, TRUE, "Update failed", 0)
               /\ UNCHANGED <<credits, credited, applied>>
            \/ /\ ev.externalId \in Users
               /\ LET creditsToAdd == CREDIT_PACKAGES(ev.productId)
                  IN /\ credits' = [credits EXCEPT
                            ![ev.externalId] = @ + creditsToAdd]
                     /\ credited' = [credited EXCEPT
                            ![ev.externalId] = @ + creditsToAdd]
                     /\ hook' = HookAnswer(ev, TRUE, NoValue, creditsToAdd)
               /\ applied' = [applied EXCEPT ![ev] = @ + 1]
    /\ UNCHANGED <<projects, nextId, req, initCredits, successCost, refused,
                   page, voices, blobs, reads, outcomes>>

\* The payment provider received the answer to its delivery.
HookReturn ==
    /\ hook # NoHook
    /\ hook' = NoHook
    /\ UNCHANGED <<credits, projects, nextId, req, started, initCredits,
                   credited, successCost, refused, applied,
                   page, voices, blobs, reads, outcomes>>

\* ------------------------------------------------------------- create page

\* const creditsNeeded = Math.max(1, Math.ceil(text.length / 100)) of the
\* settings panel.
PanelCreditsNeeded(text) == Max(1, Ceil(text, 100))

\* The page holding a text of this length, and the cost its panel shows.
Panel(text) == [text |-> text, creditsNeeded |-> PanelCreditsNeeded(text)]

\* generateSpeech() of the page: nothing is sent for an empty text, otherwise
\* the server action is called with the text of the page, the selected voice
\* and language and the two control parameters.
PageGenerate(p, sess) ==
    /\ page.text # 0
    /\ GenBegin(p, sess, [text |-> page.text,
                          voice_S3_key |-> DefaultVoice,
                          language |-> "en", exaggeration |-> 5,
                          cfg_weight |-> 5])

\* --------------------------------------------------------------- requests

\* The requests submitted: 100 characters with both control parameters, 250
\* characters with the control parameters omitted, and the first of these
\* with one required field absent (an empty text, no voice key, no language).
FullData ==
    [text |-> 100, voice_S3_key |-> DefaultVoice,
     language |-> "en", exaggeration |-> 7, cfg_weight |-> 3]
GenData ==
    {FullData,
     [FullData EXCEPT !.text = 250, !.exaggeration = Undefined,
                      !.cfg_weight = Undefined],
     [FullData EXCEPT !.text = 0],
     [FullData EXCEPT !.voice_S3_key = NoKey],
     [FullData EXCEPT !.language = NoValue]}

\* ---------------------------------------------------------- initial state

\* A row written by an earlier generation of account A.
SeedProject ==
    NewAudioProject([FullData EXCEPT !.exaggeration = Undefined,
                                     !.cfg_weight = Undefined],
                    ProviderKey, "A")

\* Every account starts with the same balance, none or MaxInitCredits; the
\* project table is empty or holds the row of an earlier generation.
Init ==
    /\ \E c \in {0, MaxInitCredits} : credits = [u \in Users |-> c]
    /\ initCredits = credits
    /\ \/ projects = << >> /\ nextId = 1
       \/ projects = (1 :> SeedProject) /\ nextId = 2
    /\ req = [p \in Procs |-> Idle]
    /\ started = 0
    /\ credited = [u \in Users |-> 0]
    /\ successCost = [u \in Users |-> 0]
    /\ refused = {}
    /\ hook = NoHook
    /\ applied = [ev \in WebhookEvents |-> 0]
    /\ page = Panel(0)
    /\ voices = << >>
    /\ blobs = {}
    /\ reads = 0
    /\ outcomes = [id \in DeleteIds |-> NoOutcome]

Next ==
    \/ \E p \in Procs, sess \in Sessions, data \in GenData : GenBegin(p, sess, data)
    \/ \E p \in Procs : GenFindUser(p)
    \/ \E p \in Procs, o \in ProviderOutcomes : GenFetch(p, o)
    \/ \E p \in Procs : GenDebit(p)
    \/ \E p \in Procs : GenCreate(p)
    \/ \E p \in Procs, sess \in Sessions, id \in DeleteIds : DelBegin(p, sess, id)
    \/ \E p \in Procs : DelFind(p)
    \/ \E p \in Procs : DelDelete(p)
    \/ \E ev \in SmallOrderEvents : onOrderPaid(ev)
    \/ HookReturn
    \/ \E p \in Procs : Return(p)

Spec == Init /\ [][Next]_vars

\* The keys of the voice rows, and a full request naming each of them.
VoiceKeys == {voices[i].s3Key : i \in DOMAIN voices}
UploadedVoiceData == {[FullData EXCEPT !.voice_S3_key = k] : k \in VoiceKeys}

\* Every server action and the webhook, one invocation at a time, called by
\* account A, by account B or without a session.
Callers == Users \cup {NoSession}
NextActions ==
    \/ \E sess \in Callers,
          data \in {FullData, [FullData EXCEPT !.text = 0]} \cup UploadedVoiceData :
          GenBegin("r1", sess, data)
    \/ GenFindUser("r1")
    \/ \E o \in ProviderOutcomes : GenFetch("r1", o)
    \/ GenDebit("r1")
    \/ GenCreate("r1")
    \/ \E sess \in Callers, id \in DeleteIds : DelBegin("r1", sess, id)
    \/ DelFind("r1")
    \/ DelDelete("r1")
    \/ \E sess \in Callers : getUserCredits("r1", sess)
    \/ \E sess \in Callers : getUserAudioProjects("r1", sess)
    \/ \E sess \in Callers : getUserUploadedVoices("r1", sess)
    \/ \E sess \in Callers, file \in UploadFiles, configured \in BOOLEAN :
          UpBegin("r1", sess, file, 1, configured)
    \/ UpPut("r1")
    \/ UpCreate("r1")
    \/ \E ev \in {e \in SmallOrderEvents : e.externalId = "A"} : onOrderPaid(ev)
    \/ HookReturn
    \/ Return("r1")

SpecActions == Init /\ [][NextActions]_vars


\* Values of Date.now().
MaxClock == 2
ClockValues == 1..MaxClock

\* An audio file with another extension.
Mp3File ==
    [present |-> TRUE, type |-> <<"audio", "mpeg">>, size |-> 1,
     name |-> <<"voice", "mp3">>]

\* Time passes: a call made after an upload has returned observes a later
\* Date.now() than that upload did.
ClockAfterReturned(now) == \A i \in DOMAIN voices : now > voices[i].s3Key[3]

\* Concurrent uploads of both accounts, each observing some clock value.
NextUpload ==
    \/ \E p \in Procs, sess \in Users, file \in {AudioFile, Mp3File},
          now \in ClockValues :
          ClockAfterReturned(now) /\ UpBegin(p, sess, file, now, TRUE)
    \/ \E p \in Procs : UpPut(p)
    \/ \E p \in Procs : UpCreate(p)
    \/ \E p \in Procs : Return(p)

SpecUpload == Init /\ [][NextUpload]_vars

\* Number of invocations started in one behaviour of SpecFair.
MaxFairRequests == 1

\* Every server action and the webhook, with a runtime that runs every
\* handler it has started to its end.
NextFair == NextActions /\ started' <= MaxFairRequests

SpecFair == Init /\ [][NextFair]_vars /\ WF_vars(NextFair)

\* Concurrent generations of account A and reads of the balances.
NextCredits ==
    \/ \E p \in Procs, data \in {d \in GenData : ~MissingRequiredFields(d)} :
          GenBegin(p, "A", data)
    \/ \E p \in Procs : GenFindUser(p)
    \/ \E p \in Procs, o \in ProviderOutcomes : GenFetch(p, o)
    \/ \E p \in Procs : GenDebit(p)
    \/ \E p \in Procs : GenCreate(p)
    \/ \E p \in Procs, sess \in Sessions : getUserCredits(p, sess)
    \/ \E p \in Procs : Return(p)

SpecCredits == Init /\ [][NextCredits]_vars

\* The largest text the create page holds.
MaxTextLen == 250

\* The create page holds a text of any length up to MaxTextLen; every account
\* has the largest initial balance and there is no project.
InitCost ==
    /\ \E n \in 0..MaxTextLen : page = Panel(n)
    /\ credits = [u \in Users |-> MaxInitCredits]
    /\ initCredits = credits
    /\ projects = << >>
    /\ nextId = 1
    /\ req = [p \in Procs |-> Idle]
    /\ started = 0
    /\ credited = [u \in Users |-> 0]
    /\ successCost = [u \in Users |-> 0]
    /\ refused = {}
    /\ hook = NoHook
    /\ applied = [ev \in WebhookEvents |-> 0]
    /\ voices = << >>
    /\ blobs = {}
    /\ reads = 0
    /\ outcomes = [id \in DeleteIds |-> NoOutcome]

\* The generations account A starts from the create page, one at a time.
NextCost ==
    \/ PageGenerate("r1", "A")
    \/ GenFindUser("r1")
    \/ \E o \in ProviderOutcomes : GenFetch("r1", o)
    \/ GenDebit("r1")
    \/ GenCreate("r1")
    \/ Return("r1")

SpecCost == InitCost /\ [][NextCost]_vars

\* The webhook alone, with every event the payment provider can post.
NextWebhook ==
    \/ \E ev \in WebhookEvents : onOrderPaid(ev)
    \/ HookReturn

SpecWebhook == Init /\ [][NextWebhook]_vars

\* ================================================================== claims

IsGen(p) == req[p].op = "generateSpeech"
IsDel(p) == req[p].op = "deleteAudioProject"
Done(p) == req[p].pc = "done"
Succeeded(p) == Done(p) /\ req[p].result.success
\* Every request has terminated.
Quiescent == \A p \in Procs : req[p].pc \in {"idle", "done"}
\* A delivery is answered in this step.
Delivered == hook = NoHook /\ hook' # NoHook

\* C1: under any interleaving of generateSpeech requests and webhook credits
\* no account's balance is ever negative.
C1_CreditsNeverNegative == \A u \in Users : credits[u] >= 0

\* C2: once every request has terminated, each balance is the initial balance
\* plus the credited amounts minus the costs of the generations that returned
\* success.
C2_LedgerBalances ==
    Quiescent =>
        \A u \in Users :
            credits[u] = initCredits[u] + credited[u] - successCost[u]

\* C3: a generateSpeech that read a balance smaller than its cost has ended
\* with the insufficient-credits error carrying the required and the available
\* amount, without a provider call, a debit or a project record.
C3_InsufficientNoEffects ==
    \A p \in Procs :
        (IsGen(p) /\ req[p].user.found
                  /\ req[p].user.credits < creditsNeeded(req[p].data.text)) =>
            /\ Done(p)
            /\ req[p].result =
                 [success |-> FALSE, error |-> "Insufficient credits",
                  need |-> creditsNeeded(req[p].data.text),
                  have |-> req[p].user.credits]
            /\ req[p].calls = 0
            /\ req[p].debits = 0
            /\ req[p].creates = 0

C3_Witness ==
    \E p \in Procs :
        /\ IsGen(p) /\ Done(p) /\ req[p].user.found
        /\ req[p].user.credits = 0
        /\ req[p].creditsNeeded = 3
        /\ ~req[p].result.success
        /\ req[p].result.error = "Insufficient credits"

\* C4: a generateSpeech whose provider call threw or answered with a non-2xx
\* status has ended in failure without a debit or a project record.
C4_ProviderFailureNoEffects ==
    \A p \in Procs :
        (IsGen(p) /\ req[p].response \in {"throws", "not_ok"}) =>
            /\ Done(p)
            /\ ~req[p].result.success
            /\ req[p].debits = 0
            /\ req[p].debited = 0
            /\ req[p].creates = 0

C4_Witness ==
    \E p \in Procs : IsGen(p) /\ Done(p) /\ req[p].response = "not_ok"

\* C5: a generateSpeech whose provider answered 2xx with a body that does not
\* parse or holds no artifact key performs no debit and creates no project
\* record.
C5_MalformedPayloadNoEffects ==
    \A p \in Procs :
        (IsGen(p) /\ req[p].response \in {"ok_unparseable", "ok_no_key"}) =>
            /\ req[p].debits = 0
            /\ req[p].creates = 0

\* C6: for every generateSpeech that has terminated, the debit and the project
\* record both happened or neither did.
C6_DebitAndRecordTogether ==
    \A p \in Procs :
        (IsGen(p) /\ Done(p)) => (req[p].debits = 1 <=> req[p].creates = 1)

\* C7: a generateSpeech that returned success wrote exactly one row, owned by
\* the session's account, holding the request's text, language and voice key,
\* the control parameters the request supplied and the key the provider
\* returned; one that returned failure wrote none.
C7_OneRecordPerSuccess ==
    \A p \in Procs :
        (IsGen(p) /\ Done(p)) =>
            IF req[p].result.success
            THEN /\ req[p].creates = 1
                 /\ req[p].created = req[p].result.projectId
                 /\ req[p].created \in DOMAIN projects
                 /\ LET row == projects[req[p].created]
                        d == req[p].data
                    IN /\ row.userId = req[p].session
                       /\ row.text = d.text
                       /\ row.language = d.language
                       /\ row.voiceS3key = d.voice_S3_key
                       /\ row.s3Key = ResponseKey(req[p].response)
                       /\ d.exaggeration # Undefined =>
                            row.exaggeration = d.exaggeration
                       /\ d.cfg_weight # Undefined =>
                            row.cfgWeight = d.cfg_weight
            ELSE req[p].creates = 0

C7_Witness ==
    \E p \in Procs :
        /\ IsGen(p) /\ Succeeded(p)
        /\ req[p].data.exaggeration = 7
        /\ req[p].response = "ok_key"

C9_RefusalsIndistinguishable ==
    /\ \A x, y \in refused : x.result = y.result
    /\ \A p \in Procs :
          (IsDel(p) /\ Done(p) /\ NotOwned(req[p].project, req[p].session)) =>
              req[p].deletes = 0

\* Both kinds of refusal have been returned.
C9_Witness ==
    /\ \E x \in refused : x.found
    /\ \E y \in refused : ~y.found

\* C10: a row leaves the table only in the delete step of a deleteAudioProject
\* whose session account is the row's owner, and a row that stays keeps its
\* field values.
C10_Step ==
    \A id \in DOMAIN projects :
        IF id \in DOMAIN projects'
        THEN projects'[id] = projects[id]
        ELSE \E p \in Procs :
                /\ IsDel(p)
                /\ req[p].pc = "delete"
                /\ req[p].id = id
                /\ req[p].session = projects[id].userId
                /\ req'[p].deletes = req[p].deletes + 1
C10_OnlyOwnerRemoves == [][C10_Step]_vars

C10_Witness ==
    \E p \in Procs : IsDel(p) /\ Done(p) /\ req[p].deletes = 1

\* C15: a balance changes only in the debit step of a generateSpeech that
\* returns success and in the credit step of the webhook: a request of any
\* other server action and a generateSpeech that returns failure have debited
\* nothing when they end.
C15_Step ==
    /\ credits' # credits =>
          \/ Delivered /\ hook'.called /\ hook'.error = NoValue
          \/ \E p \in Procs :
                /\ IsGen(p)
                /\ req[p].pc = "debit"
                /\ req'[p].debits = req[p].debits + 1
    /\ \A p \in Procs :
          (req'[p].pc = "done" /\ ~(IsGen(p) /\ req'[p].result.success)) =>
              /\ req'[p].debits = 0
              /\ req'[p].debited = 0
C15_OnlyDebitAndCreditChange == [][C15_Step]_vars

\* C16: the cost of a text is max(1, ceil(length / 100)), the least whole
\* number of hundreds that covers the length and at least 1 (1 for 0 and for
\* 100 characters, 2 for 101, 3 for 250); the cost the settings panel shows
\* for the text of the page is the cost generateSpeech checks against the
\* balance and debits for that text.
C16_CostFormula ==
    LET n == page.text
        c == creditsNeeded(n)
    IN /\ c >= 1
       /\ c * 100 >= n
       /\ c > 1 => (c - 1) * 100 < n
       /\ n = 0 => c = 1
       /\ n = 100 => c = 1
       /\ n = 101 => c = 2
       /\ n = 250 => c = 3
       /\ page.creditsNeeded = c
       /\ \A p \in Procs :
             (IsGen(p) /\ req[p].pc \in {"findUser", "fetch", "debit", "create"}) =>
                 req[p].creditsNeeded = page.creditsNeeded
       /\ \A p \in Procs :
             (IsGen(p) /\ req[p].user.found /\ req[p].pc # "done") =>
                 req[p].user.credits >= page.creditsNeeded
       /\ \A p \in Procs :
             (IsGen(p) /\ req[p].debits = 1) =>
                 req[p].debited = page.creditsNeeded

\* A text of 101 characters has been debited.
C16_Witness ==
    \E p \in Procs :
        /\ IsGen(p) /\ req[p].debits = 1
        /\ page.text = 101
        /\ page.creditsNeeded = 2
        /\ req[p].debited = 2
        /\ credits["A"] = initCredits["A"] - 2

IsCredits(p) == req[p].op = "getUserCredits"

\* C17: getUserCredits returns credits = 0 without a session, without a user
\* row and when the read fails, and the value it returns is never negative.
C17_CreditsReadNonNegative ==
    \A p \in Procs :
        (IsCredits(p) /\ Done(p)) =>
            /\ req[p].result.credits >= 0
            /\ (\/ req[p].session \notin Users
                \/ ~req[p].result.success) => req[p].result.credits = 0

\* The request of slot p is called in this step.
Called(p) == req[p].pc = "idle" /\ req'[p].pc # "idle"

\* C18: a request of any of the six server actions for which getSession()
\* returned no session ends in the step it is called in with the error
\* Unauthorized: it has issued no datastore read or write, no provider call
\* and no bucket put, and the tables, the balances and the bucket are as they
\* were.
C18_Step ==
    \A p \in Procs :
        (Called(p) /\ req'[p].session = NoSession) =>
            /\ req'[p].pc = "done"
            /\ ~req'[p].result.success
            /\ req'[p].result.error = "Unauthorized"
            /\ req'[p].dbReads = 0
            /\ req'[p].dbWrites = 0
            /\ req'[p].calls = 0
            /\ req'[p].puts = 0
            /\ UNCHANGED <<credits, projects, voices, blobs>>
C18_NoSessionUnauthorized == [][C18_Step]_vars

\* Each of the six server actions has been called without a session at some
\* time; here getUserUploadedVoices has just been refused.
C18_Witness ==
    /\ req["r1"].op = "getUserUploadedVoices"
    /\ req["r1"].session = NoSession
    /\ req["r1"].result = NoVoices("Unauthorized")
    /\ started = MaxRequests

\* The request of slot p has issued nothing: no read, write, call or put.
NoAccess(p) ==
    /\ req[p].dbReads = 0
    /\ req[p].dbWrites = 0
    /\ req[p].calls = 0
    /\ req[p].puts = 0
    /\ req[p].debits = 0
    /\ req[p].creates = 0

\* C19 as stated: a generateSpeech with a session in which the text, the
\* voice key, the language or a control parameter is absent ends with the
\* validation error before the balance is read and the provider is called.
C19_AnyFieldAbsentRejected ==
    \A p \in Procs :
        (/\ IsGen(p)
         /\ req[p].session \in Users \cup {NoRowUser}
         /\ \/ req[p].data.text = 0
            \/ req[p].data.voice_S3_key = NoKey
            \/ req[p].data.language = NoValue
            \/ req[p].data.exaggeration = Undefined
            \/ req[p].data.cfg_weight = Undefined) =>
            /\ Done(p)
            /\ req[p].result = Failure("Missing required fields")
            /\ NoAccess(p)

\* C19 (amended): a generateSpeech with a session in which the text, the voice
\* key or the language is absent ends with the validation error before the
\* balance is read and the provider is called, with no side effects; an
\* absent control parameter is no validation error.
C19_RequiredFieldAbsentRejected ==
    \A p \in Procs :
        (IsGen(p) /\ req[p].session \in Users \cup {NoRowUser}) =>
            IF \/ req[p].data.text = 0
               \/ req[p].data.voice_S3_key = NoKey
               \/ req[p].data.language = NoValue
            THEN /\ Done(p)
                 /\ req[p].result = Failure("Missing required fields")
                 /\ NoAccess(p)
            ELSE Done(p) => req[p].result # Failure("Missing required fields")

C19_Witness ==
    \E p \in Procs :
        /\ IsGen(p) /\ Done(p)
        /\ req[p].session = "A"
        /\ req[p].data.language = NoValue
        /\ req[p].data.text = 100
        /\ req[p].result = Failure("Missing required fields")

\* The voice keys the account may use: the shared default voice and the keys
\* of its own voice rows.
AllowedVoices(uid) ==
    {DefaultVoice} \cup
    {voices[i].s3Key : i \in {j \in DOMAIN voices : voices[j].userId = uid}}

\* C20: a generateSpeech has called the provider, debited or created a row
\* only for a voice key the session's account may use.
C20_VoiceKeyAllowed ==
    \A p \in Procs :
        (IsGen(p) /\ (req[p].calls > 0 \/ req[p].debits > 0
                                      \/ req[p].creates > 0)) =>
            req[p].data.voice_S3_key \in AllowedVoices(req[p].session)

\* C11: a delivery whose signature does not verify never reaches onOrderPaid
\* and its credit step: no balance changes in the step that answers it.
C11_Step ==
    (Delivered /\ ~hook'.event.signed) =>
        /\ ~hook'.called
        /\ hook'.added = 0
        /\ credits' = credits
C11_UnverifiedNeverCredits == [][C11_Step]_vars

C11_Witness ==
    /\ hook # NoHook
    /\ ~hook.event.signed
    /\ hook.event.externalId = "A"
    /\ hook.event.productId = LargeProduct

\* C12: a delivery that onOrderPaid completed adds to the balance of the
\* paying account exactly the amount of the product's tier (50, 200, 400) and
\* nothing for an unrecognized or absent product id; no delivery lowers any
\* balance.
C12_Step ==
    Delivered =>
        /\ \A u \in Users : credits'[u] >= credits[u]
        /\ (hook'.called /\ hook'.error = NoValue) =>
              LET pid == hook'.event.productId
                  tier == IF pid = SmallProduct THEN 50
                          ELSE IF pid = MediumProduct THEN 200
                          ELSE IF pid = LargeProduct THEN 400
                          ELSE 0
              IN credits' = [credits EXCEPT ![hook'.event.externalId] = @ + tier]
C12_TierAmountCredited == [][C12_Step]_vars

C12_Witness ==
    /\ hook # NoHook
    /\ hook.error = NoValue
    /\ hook.event.productId = MediumProduct
    /\ hook.added = 200
    /\ credits["A"] = initCredits["A"] + 200

\* C13: the webhook is idempotent: an event that is delivered more than once
\* is credited once.
C13_CreditedOnce == \A ev \in WebhookEvents : applied[ev] <= 1

\* C14: a verified delivery without an external customer id ends with the
\* error onOrderPaid throws, and its step changes no balance.
C14_Step ==
    (Delivered /\ hook'.event.signed /\ hook'.event.externalId = NoValue) =>
        /\ hook'.called
        /\ hook'.error = "No external customer id found."
        /\ credits' = credits
C14_NoExternalIdThrows == [][C14_Step]_vars

C14_Witness ==
    /\ hook # NoHook
    /\ hook.event.signed
    /\ hook.event.externalId = NoValue
    /\ hook.event.productId = SmallProduct
    /\ hook.error = "No external customer id found."

\* A result of the form { success, ... }, with an error message when success
\* is false.
Structured(result) ==
    /\ "success" \in DOMAIN result
    /\ result.success \in BOOLEAN
    /\ ~result.success =>
          /\ "error" \in DOMAIN result
          /\ result.error # NoValue

\* C23: every invocation of a server action ends, and ends with a structured
\* result; an invocation in which the session provider, the datastore, the
\* inference provider or the bucket threw ends with { success: false, error }.
C23_AlwaysStructuredResult ==
    /\ [](\A p \in Procs :
              Done(p) =>
                  /\ Structured(req[p].result)
                  /\ req[p].exception # NoValue => ~req[p].result.success)
    /\ \A p \in Procs : (req[p].pc # "idle") ~> Done(p)

\* The bucket threw in an uploadVoice.
C23_Witness ==
    \E p \in Procs :
        /\ Done(p)
        /\ req[p].op = "uploadVoice"
        /\ req[p].exception = "bucket"
        /\ req[p].result = Failure("Failed to upload voice file")

\* C24: within a generateSpeech the provider call, the debit and the create
\* happen in this order: the debit is issued only after the request's one
\* provider call was answered with a 2xx status and a body that parsed, and
\* takes the cost from the balance of the session's account; a row enters the
\* project table only in the create of a request that has debited the cost
\* of the row's text on the account that owns the row.
C24_Step ==
    /\ \A p \in Procs :
          (IsGen(p) /\ req'[p].debits > req[p].debits) =>
              /\ req[p].calls = 1
              /\ req[p].response \in {"ok_no_key", "ok_key"}
              /\ req[p].creates = 0
              /\ credits' = [credits EXCEPT
                    ![req[p].session] = @ - creditsNeeded(req[p].data.text)]
    /\ \A id \in DOMAIN projects' \ DOMAIN projects :
          \E p \in Procs :
              /\ IsGen(p)
              /\ req[p].pc = "create"
              /\ req'[p].created = id
              /\ req[p].debits = 1
              /\ req[p].debited = creditsNeeded(projects'[id].text)
              /\ projects'[id].userId = req[p].session
C24_ProviderDebitCreateOrder == [][C24_Step]_vars

C24_Witness ==
    \E p \in Procs :
        /\ IsGen(p) /\ Succeeded(p)
        /\ req[p].calls = 1
        /\ req[p].debits = 1
        /\ req[p].debited = 3
        /\ req[p].creates = 1
        /\ projects[req[p].created].text = 250

\* C25: a generateSpeech whose provider call failed has issued no datastore
\* write, debited nothing and created no row; one whose debit write failed
\* has issued no further write and created no row.
C25_FailureStopsLaterSteps ==
    \A p \in Procs :
        IsGen(p) =>
            /\ req[p].response \in {"throws", "not_ok", "ok_unparseable"} =>
                  /\ Done(p)
                  /\ ~req[p].result.success
                  /\ req[p].dbWrites = 0
                  /\ req[p].debits = 0
                  /\ req[p].creates = 0
            /\ (req[p].dbWrites >= 1 /\ req[p].debits = 0) =>
                  /\ Done(p)
                  /\ ~req[p].result.success
                  /\ req[p].dbWrites = 1
                  /\ req[p].creates = 0

\* The debit write of a request has failed.
C25_Witness ==
    \E p \in Procs :
        /\ IsGen(p) /\ Done(p)
        /\ req[p].calls = 1
        /\ req[p].dbWrites = 1
        /\ req[p].debits = 0
        /\ credits[req[p].session] = initCredits[req[p].session]

\* C26: a generateSpeech calls the provider at most once, debits at most once
\* and creates at most one row; one that returned success has done each
\* exactly once.
C26_AtMostOnce ==
    \A p \in Procs :
        IsGen(p) =>
            /\ req[p].calls <= 1
            /\ req[p].debits <= 1
            /\ req[p].creates <= 1
            /\ Succeeded(p) =>
                  /\ req[p].calls = 1
                  /\ req[p].debits = 1
                  /\ req[p].creates = 1

\* The provider call threw and was not repeated.
C26_Witness ==
    \E p \in Procs :
        /\ IsGen(p) /\ Done(p)
        /\ req[p].response = "throws"
        /\ req[p].calls = 1
        /\ req[p].result = Failure("Internal server error")

\* C29: of the deleteAudioProject calls that the owner of a row makes for its
\* id, concurrent ones included, at most one returns success and removes the
\* row; every other one that ends without a fault of the session provider or
\* the datastore returns a {success: false} result after that success, and a
\* delete that finds the row already gone is answered with the catch block's
\* result instead of an exception.
C29_ConcurrentDeleteOnce ==
    /\ \A id \in DeleteIds :
          LET o == outcomes[id]
          IN /\ o.ok <= 1
             /\ o.failed >= 1 => o.ok = 1
             /\ o.ok = 1 => id \notin DOMAIN projects
    /\ \A p \in Procs :
          Done(p) /\ IsDel(p) /\ req[p].owned =>
              /\ Structured(req[p].result)
              /\ req[p].result.success <=> req[p].deletes = 1
              /\ req[p].exception = "RecordNotFound" =>
                    req[p].result = Failure("Failed to delete audio project")

\* Two concurrent deletes of the owner both found the row; the second one's
\* delete then found it gone.
C29_Witness ==
    \E p \in Procs :
        /\ Done(p) /\ IsDel(p) /\ req[p].owned
        /\ req[p].exception = "RecordNotFound"
        /\ req[p].project.found
        /\ outcomes[req[p].id] = [ok |-> 1, failed |-> 1, faulted |-> 0]

IsList(p) == req[p].op \in {"getUserAudioProjects", "getUserUploadedVoices"}
\* The rows a successful list call returned, and the table it read.
Listed(p) ==
    IF req[p].op = "getUserAudioProjects"
    THEN req[p].result.audioProjects
    ELSE req[p].result.voices
ListedTable(p) ==
    IF req[p].op = "getUserAudioProjects" THEN projects ELSE voices

\* C21: a successful getUserAudioProjects or getUserUploadedVoices returns
\* the rows of the calling account, all of them and no row of another
\* account, each as it is stored, the one created later before the one
\* created earlier.
C21_OwnRowsNewestFirst ==
    \A p \in Procs :
        IsList(p) /\ Succeeded(p) =>
            LET rows == Listed(p)
                table == ListedTable(p)
                uid == req[p].session
            IN /\ {rows[i].id : i \in DOMAIN rows} =
                     {id \in DOMAIN table : table[id].userId = uid}
               /\ \A i \in DOMAIN rows : rows[i].row = table[rows[i].id]
               /\ \A i, j \in DOMAIN rows : i < j => rows[i].id > rows[j].id

\* An account with two projects listed them, the later one first.
C21_Witness ==
    \E p \in Procs :
        /\ req[p].op = "getUserAudioProjects" /\ Succeeded(p)
        /\ Len(req[p].result.audioProjects) = 2
        /\ req[p].result.audioProjects[1].id = 2
        /\ req[p].result.audioProjects[2].id = 1

IsUp(p) == req[p].op = "uploadVoice"
\* The upload was accepted: it went on to the bucket.
Accepted(p) == IsUp(p) /\ (req[p].pc \in {"put", "createVoice"} \/ req[p].puts >= 1)
\* The upload ended at the validation of the file.
Rejected(p) ==
    /\ IsUp(p) /\ Done(p)
    /\ req[p].result \in {Failure("No file provided"),
                          Failure("File must be audio"),
                          Failure("File must be under 10MB")}

\* C22: uploadVoice accepts a file only when its MIME type begins with
\* "audio/" and its size is under MAX_FILE_SIZE, a file of exactly
\* MAX_FILE_SIZE bytes being too large; a rejected file causes no bucket put
\* and no voice row.
C22_OnlyAudioUnderCeilingAccepted ==
    \A p \in Procs :
        /\ Accepted(p) =>
              /\ StartsWithAudio(req[p].file.type)
              /\ req[p].file.size < MAX_FILE_SIZE
        /\ Rejected(p) =>
              /\ req[p].puts = 0
              /\ req[p].dbWrites = 0
              /\ req[p].fileName = NoKey

\* The key lies in the namespace of the account: voices/<uid>/<token>.<ext>.
InNamespace(key, uid) == Len(key) = 4 /\ key[1] = "voices" /\ key[2] = uid

\* A step that writes a voice row is the create of an upload that has put
\* its object, and the row names that object and the uploader.
C27_Step ==
    voices' # voices =>
        \E p \in Procs :
            /\ IsUp(p) /\ req[p].pc = "createVoice"
            /\ req[p].puts = 1
            /\ req[p].fileName \in blobs
            /\ InNamespace(req[p].fileName, req[p].session)
            /\ req[p].fileName[4] = FileExtension(req[p].file.name)
            /\ Len(voices') = Len(voices) + 1
            /\ SubSeq(voices', 1, Len(voices)) = voices
            /\ voices'[Len(voices')].s3Key = req[p].fileName
            /\ voices'[Len(voices')].userId = req[p].session

\* C27: uploadVoice writes the voice row only after the object was put into
\* the bucket under voices/<uploading account>/<token>.<extension>: every
\* voice row names a key that was put, that lies in the namespace of its
\* owner, and its owner is the uploader.
C27_RecordAfterStore ==
    /\ [](\A i \in DOMAIN voices :
              /\ voices[i].s3Key \in blobs
              /\ voices[i].userId \in Users
              /\ InNamespace(voices[i].s3Key, voices[i].userId))
    /\ [][C27_Step]_vars

\* Account B uploaded a file: its object and its row exist.
C27_Witness ==
    \E p \in Procs :
        /\ IsUp(p) /\ Succeeded(p)
        /\ req[p].session = "B"
        /\ req[p].result.s3Key = VoiceKey("B", 1, "wav")
        /\ req[p].result.s3Key \in blobs
        /\ voices[Len(voices)].s3Key = req[p].result.s3Key
        /\ voices[Len(voices)].userId = "B"

\* C28: any two successful uploadVoice calls, two concurrent calls of one
\* account with the same clock value and extension included, store their
\* objects under distinct keys: no two voice rows name the same key.
C28_DistinctBlobKeys ==
    \A i, j \in DOMAIN voices :
        i # j => voices[i].s3Key # voices[j].s3Key

\* The project rows and the voice rows of an account.
ProjectsOf(table, b) ==
    {<<id, table[id]>> : id \in {i \in DOMAIN table : table[i].userId = b}}
VoicesOf(table, b) ==
    {<<i, table[i]>> : i \in {k \in DOMAIN table : table[k].userId = b}}

\* The step is one of a server action running with the session of account b,
\* or the handling of an order-paid event for b.
ActsFor(b) ==
    \/ \E p \in Procs :
          /\ req'[p] # req[p]
          /\ req[p].pc # "done"
          /\ req'[p].session = b
    \/ /\ hook' # hook
       /\ hook'.event.externalId = b

\* C30: the balance of an account changes, and a project row or voice row
\* of an account is created, modified or deleted, only in a step of a
\* server action called with that account's session or of an order-paid
\* event for that account: what runs for account A leaves account B alone.
C30_Step ==
    \A b \in Users :
        \/ /\ credits'[b] = credits[b]
           /\ ProjectsOf(projects', b) = ProjectsOf(projects, b)
           /\ VoicesOf(voices', b) = VoicesOf(voices, b)
        \/ ActsFor(b)
C30_AccountsIsolated == [][C30_Step]_vars

\* Account B asked for the deletion of the row of account A and was refused:
\* the row and the balance of A are as they were.
C30_Witness ==
    \E p \in Procs :
        /\ IsDel(p) /\ Done(p)
        /\ req[p].session = "B"
        /\ req[p].id = 1
        /\ req[p].project = [found |-> TRUE, userId |-> "A"]
        /\ ~req[p].result.success
        /\ 1 \in DOMAIN projects
        /\ projects[1] = SeedProject
        /\ credits["A"] = initCredits["A"]

====
